---- MODULE Spec2Model ----
(***************************************************************************)
(* One request to POST /evaluate (app/api/v1/endpoints/eval.py) and the    *)
(* GeminiDocEvaluator.evaluate() call it makes                             *)
(* (app/services/project_doc.py).  The remote provider (files.upload,      *)
(* files.get, models.generate_content, files.delete), the file system and  *)
(* the clock are the environment: every outcome they can produce is a      *)
(* nondeterministic choice.  Strings the code inspects are sequences of    *)
(* characters (file names) or of text fragments (messages), so that        *)
(* substring tests and extension parsing are computed, not assumed.        *)
(* Every handle the provider returns has a name (its id); files.upload may *)
(* return a handle without a state, files.get returns one with a state.    *)
(* Time is counted in seconds; it passes in asyncio.sleep and in files.get.*)
(***************************************************************************)
EXTENDS Integers, Sequences, FiniteSets, TLC

(***************************************************************************)
(* Program constants                                                       *)
(***************************************************************************)
max_retries == 3
retry_delay == 2
max_processing_time == 30
max_file_size == 50 * 1024 * 1024
chunk_size == 1024 * 1024
HTTP_200_OK == 200
HTTP_400_BAD_REQUEST == 400
HTTP_500_INTERNAL_SERVER_ERROR == 500
\* "max_size_mb": 50 in the file_too_large detail
max_size_mb == 50

(***************************************************************************)
(* Bounds of the environment                                               *)
(***************************************************************************)
\* longest time (seconds) one files.get call takes
MaxCallTime == 1
\* number of requests handled side by side
NumRequests == 2
\* number of times the prompt is built for the same arguments
MaxPromptCalls == 2

(***************************************************************************)
(* File names and the extension allow-list                                 *)
(***************************************************************************)
ALLOWED_EXTENSIONS ==
    { <<".", "p", "d", "f">>, <<".", "d", "o", "c", "x">>, <<".", "d", "o", "c">>,
      <<".", "t", "x", "t">>, <<".", "r", "t", "f">>, <<".", "o", "d", "t">>,
      <<".", "m", "d">>,
      <<".", "j", "p", "g">>, <<".", "j", "p", "e", "g">>, <<".", "p", "n", "g">>,
      <<".", "w", "e", "b", "p">>, <<".", "g", "i", "f">>,
      <<".", "m", "p", "4">>, <<".", "w", "e", "b", "m">>, <<".", "m", "o", "v">>,
      <<".", "a", "v", "i">>, <<".", "m", "k", "v">>,
      <<".", "m", "p", "3">>, <<".", "w", "a", "v">>, <<".", "o", "g", "g">>,
      <<".", "m", "4", "a">> }

\* str.lower() on one character (the upper-case letters the inputs use)
LowerChar(c) ==
    CASE c = "P" -> "p" [] c = "D" -> "d" [] c = "F" -> "f"
      [] c = "M" -> "m" [] c = "R" -> "r" [] c = "E" -> "e" [] c = "X" -> "x"
      [] OTHER -> c

\* str.lower()
Lower(s) == [i \in 1..Len(s) |-> LowerChar(s[i])]

\* ext.lstrip('.'): drop every leading dot
RECURSIVE LStripDot(_)
LStripDot(s) == IF s # <<>> /\ Head(s) = "." THEN LStripDot(Tail(s)) ELSE s

\* '.' in filename
HasDot(s) == \E i \in 1..Len(s) : s[i] = "."

\* index of the last dot (0 when there is none)
LastDot(s) == IF HasDot(s)
              THEN CHOOSE i \in 1..Len(s) :
                       s[i] = "." /\ \A j \in (i+1)..Len(s) : s[j] # "."
              ELSE 0

\* filename.rsplit('.', 1)[1]: what follows the last dot
RSplitLast(s) == SubSeq(s, LastDot(s) + 1, Len(s))

is_allowed_file(fname) ==
    /\ HasDot(fname)
    /\ Lower(RSplitLast(fname)) \in { LStripDot(ext) : ext \in ALLOWED_EXTENSIONS }

(***************************************************************************)
(* Inputs of a request                                                     *)
(***************************************************************************)
\* <<>> stands for a missing (None or empty) file name
Filenames ==
    { <<>>,
      <<"r", ".", "p", "d", "f">>,
      <<"R", ".", "M", "D">>,
      <<"r", ".", "e", "x", "e">>,
      <<"p", "d", "f">>,
      <<"r", ".", "p", "d", "f", ".", "e", "x", "e">>,
      <<"r", ".", "p", "d", "f", ".">>,
      <<".", "p", "d", "f">> }

StepNames == { "", "Research & Data Collection" }
DeliverableNames == { "", "Survey Results" }

\* file.size when the framework does not know the size
NoSize == -1
FileSizes == { NoSize, 0, 1, max_file_size, max_file_size + 1 }

(***************************************************************************)
(* Messages: sequences of text fragments; "needle in message" is the       *)
(* search for a contiguous run of fragments                                *)
(***************************************************************************)
Contains(hay, needle) ==
    \E i \in 1..(Len(hay) - Len(needle) + 1) :
        SubSeq(hay, i, i + Len(needle) - 1) = needle

NumStr(n) == CASE n = 3 -> "3" [] n = 30 -> "30" [] OTHER -> "?"

FileNotFoundMsg == <<"File not found:", "tmp">>
TimeoutMsg ==
    <<"File processing timed out after", NumStr(max_processing_time), "seconds">>
NotActiveMsg(st) ==
    <<"File is", "not in", "ACTIVE state", "after upload. State:", st>>
UploadFailedMsg(e) ==
    <<"Failed to upload file after", NumStr(max_retries), "attempts:">> \o e
NoHandleMsg == <<"File upload failed: No file handle returned">>
GenerationFailedMsg(e) == <<"Content generation failed:">> \o e
InvalidResponseMsg == <<"Invalid response from Gemini API">>

\* what the provider's calls can raise
UploadErrors == { <<"503", "UNAVAILABLE">> }
GetErrors == { <<"500", "INTERNAL">> }
GenerateErrors ==
    { <<"503", "UNAVAILABLE">>,
      <<"400", "FAILED_PRECONDITION", "The File is", "not in", "an",
        "ACTIVE state", "and usage is not allowed">> }
NoStateAttrMsg == <<"'File' object has no attribute 'state'">>
ValidationErrorMsg == <<"1 validation error for EvaluationResponse">>

\* texts models.generate_content can return
Texts ==
    { <<"Overall Score:", " ", "2", "3", "/", "3", "0">>,
      <<"fine">>,
      <<>>,
      <<"Overall Score:", "*", "5", "/", "Overall Score:", "0", "7", "/">>,
      <<"Overall Score:", "4", "/", "Overall Score:", " ", "9", "/">>,
      <<"Overall Score:", " ", "8">>,
      <<"Overall Score:", " ", "\n", "/", "1", "0">> }

(***************************************************************************)
(* Remote file handles                                                     *)
(***************************************************************************)
HandleStates == { "PROCESSING", "ACTIVE", "FAILED" }
\* myfile = None
NoFile == [id |-> 0, hasState |-> FALSE, state |-> "-"]
Handle(i, hs, st) == [id |-> i, hasState |-> hs, state |-> st]
\* what files.upload can return: a handle with a state, or one without
UploadReturns(i) ==
    { Handle(i, TRUE, st) : st \in HandleStates } \cup { Handle(i, FALSE, "-") }

(***************************************************************************)
(* Results                                                                 *)
(***************************************************************************)
NoResult == [kind |-> "none", text |-> <<>>, msg |-> <<>>]
Returned(t) == [kind |-> "ok", text |-> t, msg |-> <<>>]
\* evaluate() returning response.text = None
ReturnedNone == [kind |-> "oknone", text |-> <<>>, msg |-> <<>>]
Raised(m) == [kind |-> "err", text |-> <<>>, msg |-> m]

\* models.generate_content has not been called
NoGenerate == [kind |-> "nocall", text |-> <<>>, msg |-> <<>>]

\* score = None
NoScore == -1
\* a field the response body does not carry
NoValue == -1

NoResponse == [status |-> 0, error |-> "", message |-> <<>>,
               evaluation |-> <<>>, step_name |-> "", deliverable_name |-> "",
               score |-> NoScore, max_size_mb |-> NoValue,
               actual_size_mb |-> NoValue]
HTTPError(st, code, m, sn, dn) ==
    [status |-> st, error |-> code, message |-> m,
     evaluation |-> <<>>, step_name |-> sn, deliverable_name |-> dn,
     score |-> NoScore, max_size_mb |-> NoValue, actual_size_mb |-> NoValue]
\* a response with the two names in each other's place
EvaluationResponseSwapped(t, sn, dn, sc) ==
    [status |-> HTTP_200_OK, error |-> "", message |-> <<>>,
     evaluation |-> t, step_name |-> dn, deliverable_name |-> sn,
     score |-> sc, max_size_mb |-> NoValue, actual_size_mb |-> NoValue]

\* lines 136-141: EvaluationResponse(evaluation, step_name, deliverable_name, score)
EvaluationResponse(t, sn, dn, sc) ==
    [status |-> HTTP_200_OK, error |-> "", message |-> <<>>,
     evaluation |-> t, step_name |-> sn, deliverable_name |-> dn,
     score |-> sc, max_size_mb |-> NoValue, actual_size_mb |-> NoValue]

\* waited is loop.time() - start_time: the time since files.upload returned
VARIABLES
    filename, step_name, deliverable_name, size,   \* the request
    pc,                                            \* position of the handler
    chunksLeft,                                    \* chunks file.read still returns
    tmp_path, tmpExists, tmpCreated, removeCalls,  \* the local temp file
    evalCalls,                                     \* calls of evaluate()
    attempt, myfile, waited, exc,                  \* locals of evaluate()
    uploadCalls, getCalls, genCalls, deleteCalls,  \* calls to the provider
    created, remote,                               \* handles created / still stored
    backoffs, attemptErrs, genOutcome,             \* history of evaluate()
    pending, evalResult,                           \* outcome in flight / reported
    respPending, response,                         \* response in flight / reported
    inflight, disk, foreign,                       \* several requests side by side
    promptArgs, prompts                            \* the prompt builder called alone

vars == << filename, step_name, deliverable_name, size, pc, chunksLeft,
           tmp_path, tmpExists, tmpCreated, removeCalls, evalCalls,
           attempt, myfile, waited, exc,
           uploadCalls, getCalls, genCalls, deleteCalls, created, remote,
           backoffs, attemptErrs, genOutcome, pending, evalResult,
           respPending, response, inflight, disk, foreign,
           promptArgs, prompts >>

reqVars == << filename, step_name, deliverable_name, size >>
tmpVars == << tmp_path, tmpExists, tmpCreated, removeCalls >>
evalLocals == << attempt, myfile, waited, exc >>
callVars == << uploadCalls, getCalls, genCalls, deleteCalls, created, remote >>
histVars == << backoffs, attemptErrs, genOutcome >>
outVars == << pending, evalResult, respPending, response >>
\* the single request followed step by step, and the requests side by side
seqVars == << reqVars, pc, chunksLeft, tmpVars, evalCalls, evalLocals,
              callVars, histVars, outVars >>
concVars == << inflight, disk, foreign >>
promptVars == << promptArgs, prompts >>

HandleIds == 1..max_retries

\* the requests handled side by side
Requests == 1..NumRequests
\* the names NamedTemporaryFile draws from: each request creates one file
TmpNames == 1..NumRequests
\* tmp_path = None, tmp not bound
NoPath == 0
\* myfile = None
NoHandle == << 0, 0 >>
\* the locals of a request that passed validation: eval.py:31-36, 93,
\* project_doc.py:37, 48
NewRequest ==
    [pc |-> "create_tmp", tmp |-> NoPath, tmp_path |-> NoPath,
     myfile |-> NoHandle, attempt |-> 0]
\* no temp file exists, nothing was touched
NoRequestStarted ==
    /\ inflight = [r \in Requests |-> NewRequest]
    /\ disk = [n \in TmpNames |-> 0]
    /\ foreign = FALSE

\* additional_context: Optional[str] = None, or a string
NoContext == [given |-> FALSE, text |-> ""]
Context(t) == [given |-> TRUE, text |-> t]
\* _create_evaluation_prompt has not been called
NoPromptBuilt ==
    /\ promptArgs = [step_name |-> <<>>, deliverable_name |-> "",
                     additional_context |-> NoContext]
    /\ prompts = <<>>

\* a request has arrived: the state of evaluate_document at its entry
RequestReceived ==
    /\ filename \in Filenames
    /\ step_name \in StepNames
    /\ deliverable_name \in DeliverableNames
    /\ size \in FileSizes
    /\ pc = "validate"
    /\ chunksLeft = 0
    /\ tmp_path = ""
    /\ tmpExists = FALSE
    /\ tmpCreated = 0
    /\ removeCalls = 0
    /\ evalCalls = 0
    /\ attempt = 0
    /\ myfile = NoFile
    /\ waited = 0
    /\ exc = <<>>
    /\ uploadCalls = 0
    /\ getCalls = 0
    /\ genCalls = 0
    /\ deleteCalls = [i \in HandleIds |-> 0]
    /\ created = {}
    /\ remote = {}
    /\ backoffs = <<>>
    /\ attemptErrs = <<>>
    /\ genOutcome = NoGenerate
    /\ pending = NoResult
    /\ evalResult = NoResult
    /\ respPending = NoResponse
    /\ response = NoResponse

Init ==
    /\ NoRequestStarted
    /\ NoPromptBuilt
    /\ RequestReceived

(***************************************************************************)
(* Request Gate: validation                                                *)
(***************************************************************************)
\* the checks with the required fields tested before the file type
ValidationErrorFieldsFirst(fname, sn, dn, sz) ==
    IF sn = "" \/ dn = "" THEN "missing_required_fields"
    ELSE IF fname = <<>> \/ ~is_allowed_file(fname) THEN "invalid_file_type"
    ELSE IF sz = NoSize \/ sz = 0 THEN "empty_file"
    ELSE IF sz > max_file_size THEN "file_too_large"
    ELSE ""

\* the checks with a size ceiling that rejects a file of exactly the limit
ValidationErrorAtLimit(fname, sn, dn, sz) ==
    IF fname = <<>> \/ ~is_allowed_file(fname) THEN "invalid_file_type"
    ELSE IF sn = "" \/ dn = "" THEN "missing_required_fields"
    ELSE IF sz = NoSize \/ sz = 0 THEN "empty_file"
    ELSE IF sz >= max_file_size THEN "file_too_large"
    ELSE ""

\* the checks without the size ceiling
ValidationErrorNoSizeCheck(fname, sn, dn, sz) ==
    IF fname = <<>> \/ ~is_allowed_file(fname) THEN "invalid_file_type"
    ELSE IF sn = "" \/ dn = "" THEN "missing_required_fields"
    ELSE IF sz = NoSize \/ sz = 0 THEN "empty_file"
    ELSE ""

\* the first failing check of evaluate_document, "" when all pass
ValidationError(fname, sn, dn, sz) ==
    IF fname = <<>> \/ ~is_allowed_file(fname) THEN "invalid_file_type"
    ELSE IF sn = "" \/ dn = "" THEN "missing_required_fields"
    ELSE IF sz = NoSize \/ sz = 0 THEN "empty_file"
    ELSE IF sz > max_file_size THEN "file_too_large"
    ELSE ""

ValidationMessage(code) ==
    CASE code = "invalid_file_type" -> <<"File type not allowed. Allowed types:">>
      [] code = "missing_required_fields" ->
             <<"Both 'step_name' and 'deliverable_name' are required fields">>
      [] code = "empty_file" -> <<"The uploaded file is empty">>
      [] OTHER -> <<"File size exceeds the maximum allowed size of 50MB">>

\* round(file.size / (1024 * 1024), 2), in hundredths of a MiB (no input of
\* the model lies half-way between two hundredths)
RoundedMb(sz) ==
    100 * (sz \div (1024 * 1024))
      + (200 * (sz % (1024 * 1024)) + 1024 * 1024) \div (2 * 1024 * 1024)

\* lines 47-54, 58-65, 72-78, 83-91: the HTTPException of a failing check
ValidationResponse(code, sz) ==
    IF code = "file_too_large"
    THEN [HTTPError(HTTP_400_BAD_REQUEST, code, ValidationMessage(code), "", "")
              EXCEPT !.max_size_mb = max_size_mb, !.actual_size_mb = RoundedMb(sz)]
    ELSE HTTPError(HTTP_400_BAD_REQUEST, code, ValidationMessage(code), "", "")

\* lines 45-91: the four checks; a failing check raises HTTPException(400)
Validate ==
    /\ pc = "validate"
    /\ LET code == ValidationError(filename, step_name, deliverable_name, size) IN
       IF code # ""
       THEN /\ response' = ValidationResponse(code, size)
            /\ pc' = "done"
       ELSE /\ response' = response
            /\ pc' = "create_tmp"
    /\ UNCHANGED << promptVars, concVars, reqVars, chunksLeft, tmpVars, evalCalls, evalLocals,
                    callVars, histVars, pending, evalResult, respPending >>

(***************************************************************************)
(* Request Gate: buffering the upload into a temp file                     *)
(***************************************************************************)
\* number of non-empty chunks file.read(chunk_size) returns for sz bytes
Chunks(sz) == (sz + chunk_size - 1) \div chunk_size

FileProcessingError ==
    HTTPError(HTTP_500_INTERNAL_SERVER_ERROR, "file_processing_error",
              <<"Failed to process uploaded file:">>, "", "")

\* line 94: NamedTemporaryFile(delete=False) creates the file, or raises
CreateTempFile ==
    /\ pc = "create_tmp"
    /\ \/ /\ tmpExists' = TRUE
          /\ tmpCreated' = tmpCreated + 1
          /\ chunksLeft' = Chunks(size)
          /\ pc' = "copy"
          /\ response' = response
       \/ /\ response' = FileProcessingError
          /\ pc' = "done"
          /\ UNCHANGED << tmpExists, tmpCreated, chunksLeft >>
    /\ UNCHANGED << promptVars, concVars, reqVars, tmp_path, removeCalls, evalCalls, evalLocals,
                    callVars, histVars, pending, evalResult, respPending >>

\* lines 96-97: one chunk read and written; file.read or tmp.write may raise,
\* and then lines 102-109 answer 500 with tmp_path still None
CopyChunk ==
    /\ pc = "copy"
    /\ chunksLeft > 0
    /\ \/ /\ chunksLeft' = chunksLeft - 1
          /\ pc' = pc
          /\ response' = response
       \/ /\ response' = FileProcessingError
          /\ pc' = "done"
          /\ chunksLeft' = chunksLeft
    /\ UNCHANGED << promptVars, concVars, reqVars, tmpVars, evalCalls, evalLocals,
                    callVars, histVars, pending, evalResult, respPending >>

\* lines 96-98: file.read returns b"", the loop ends, tmp_path = tmp.name
FinishCopy ==
    /\ pc = "copy"
    /\ chunksLeft = 0
    /\ tmp_path' = "tmp"
    /\ pc' = "construct"
    /\ UNCHANGED << promptVars, concVars, reqVars, chunksLeft, tmpExists, tmpCreated, removeCalls,
                    evalCalls, evalLocals, callVars, histVars, outVars >>

\* line 112: GeminiDocEvaluator() - genai.Client() may raise, outside any try
ConstructEvaluator ==
    /\ pc = "construct"
    /\ \/ /\ pc' = "eval_start"
          /\ response' = response
       \/ /\ response' = HTTPError(HTTP_500_INTERNAL_SERVER_ERROR, "",
                                   <<"Internal Server Error">>, "", "")
          /\ pc' = "done"
    /\ UNCHANGED << promptVars, concVars, reqVars, chunksLeft, tmpVars, evalCalls, evalLocals,
                    callVars, histVars, pending, evalResult, respPending >>

(***************************************************************************)
(* GeminiDocEvaluator.evaluate                                             *)
(***************************************************************************)
\* the wrapper of line 121 dropping the message of the error it wraps
EvaluationFailedMsgBare(e) == <<"Evaluation failed:">>

\* line 121: f"Evaluation failed: {str(e)}"
EvaluationFailedMsg(e) == <<"Evaluation failed:">> \o e

\* evaluate() going on to the upload without looking for the file
FileMissingIgnored(exists) == FALSE

\* line 40: not os.path.exists(file_path)
FileMissing(exists) == ~exists

\* lines 35-46: myfile = None, the existence check, the retry constants.
\* os.path.exists answers for the file system as it is then: the temp file
\* is there unless something outside the request has removed it since it
\* was written.
EvalStart ==
    /\ pc = "eval_start"
    /\ evalCalls' = evalCalls + 1
    /\ myfile' = NoFile
    /\ attempt' = 0
    /\ \E exists \in {tmpExists, FALSE} :
         /\ tmpExists' = exists
         /\ IF FileMissing(exists)
            THEN /\ pending' = Raised(EvaluationFailedMsg(FileNotFoundMsg))
                 /\ pc' = "finally"
            ELSE /\ pending' = pending
                 /\ pc' = "upload"
    /\ UNCHANGED << promptVars, concVars, reqVars, chunksLeft, tmp_path, tmpCreated, removeCalls,
                    waited, exc, callVars, histVars, evalResult, respPending,
                    response >>

\* a backoff counting the attempts from zero
BackoffZeroBased(a) == retry_delay * a

\* a backoff that does not grow with the attempt
BackoffFixed(a) == retry_delay

\* the backoff after failed attempt number a (0-based): line 91
Backoff(a) == retry_delay * (a + 1)

\* attempt == max_retries - 1: line 79
IsLastAttempt(a) == a = max_retries - 1

\* the handler without the delete of the last attempt
AttemptFailedNoDelete(e, f) ==
    /\ attemptErrs' = Append(attemptErrs, e)
    /\ waited' = 0
    /\ IF attempt = max_retries - 1
       THEN /\ exc' = exc
            /\ pc' = "finally"
            /\ pending' = Raised(<<"Evaluation failed:", "Failed to upload file after",
                                   "3", "attempts:">> \o e)
            /\ UNCHANGED << attempt, backoffs >>
       ELSE /\ backoffs' = Append(backoffs, retry_delay * (attempt + 1))
            /\ attempt' = attempt + 1
            /\ pc' = "upload"
            /\ UNCHANGED << exc, pending >>

\* lines 78-91: the handler of the retry loop, for exception e with myfile = f.
\* On the last attempt a handle with a name is deleted first (pc "last_delete"),
\* else the upload-failed error is raised and wrapped by line 121; on earlier
\* attempts the handler sleeps and the loop goes on.  start_time is dead
\* once the attempt has failed.
AttemptFailed(e, f) ==
    /\ attemptErrs' = Append(attemptErrs, e)
    /\ waited' = 0
    /\ IF IsLastAttempt(attempt)
       THEN /\ IF f.id # 0
               THEN /\ exc' = e
                    /\ pc' = "last_delete"
                    /\ pending' = pending
               ELSE /\ exc' = exc
                    /\ pc' = "finally"
                    /\ pending' = Raised(EvaluationFailedMsg(UploadFailedMsg(e)))
            /\ UNCHANGED << attempt, backoffs >>
       ELSE /\ backoffs' = Append(backoffs, Backoff(attempt))
            /\ attempt' = attempt + 1
            /\ pc' = "upload"
            /\ UNCHANGED << exc, pending >>

\* every handle sent to the poll loop, with or without a state
AfterUploadAlwaysPoll(f) == "poll"

\* lines 56-61: a handle without a state attribute leaves the retry loop at
\* once, any other enters the poll loop
AfterUpload(f) == IF ~f.hasState THEN "generate" ELSE "poll"

\* lines 51-61: files.upload returns a handle or raises; start_time is
\* taken when it returns
Upload ==
    /\ pc = "upload"
    /\ uploadCalls' = uploadCalls + 1
    /\ \/ \E f \in UploadReturns(uploadCalls + 1) :
            /\ myfile' = f
            /\ created' = created \cup {f.id}
            /\ remote' = remote \cup {f.id}
            /\ pc' = AfterUpload(f)
            /\ waited' = 0
            /\ UNCHANGED << attempt, exc, backoffs, attemptErrs, pending >>
       \/ \E e \in UploadErrors :
            /\ AttemptFailed(e, myfile)
            /\ UNCHANGED << myfile, created, remote >>
    /\ UNCHANGED << promptVars, concVars, reqVars, chunksLeft, tmpVars, evalCalls, getCalls, genCalls,
                    deleteCalls, genOutcome, evalResult, respPending, response >>

\* a poll loop without the timeout test
TimedOutNever(w) == FALSE

\* the timeout test firing already at the budget
TimedOutAtBudget(w) == w >= max_processing_time

\* line 63: the processing-timeout test, w seconds after the upload returned
TimedOut(w) == w > max_processing_time

\* a readiness test that lets every state that left PROCESSING through
NotActiveNever(st) == FALSE

\* line 73: myfile.state != 'ACTIVE', tested once the loop is left
NotActive(st) == st # "ACTIVE"

\* lines 62-65 and 73-76: one test of the poll loop
Poll ==
    /\ pc = "poll"
    /\ IF myfile.state = "PROCESSING"
       THEN IF TimedOut(waited)
            THEN AttemptFailed(TimeoutMsg, myfile)
            ELSE /\ waited' = waited + retry_delay
                 /\ pc' = "get"
                 /\ UNCHANGED << attempt, exc, backoffs, attemptErrs, pending >>
       ELSE IF NotActive(myfile.state)
            THEN AttemptFailed(NotActiveMsg(myfile.state), myfile)
            ELSE /\ pc' = "generate"
                 /\ waited' = 0
                 /\ UNCHANGED << attempt, exc, backoffs, attemptErrs, pending >>
    /\ UNCHANGED << promptVars, concVars, reqVars, chunksLeft, tmpVars, evalCalls, myfile,
                    callVars, genOutcome, evalResult, respPending, response >>

\* lines 68-71: files.get(name=myfile.name) refreshes the handle or raises
GetStatus ==
    /\ pc = "get"
    /\ getCalls' = getCalls + 1
    /\ \E d \in 0..MaxCallTime :
         \/ \E st \in HandleStates :
              /\ myfile' = Handle(myfile.id, TRUE, st)
              /\ waited' = waited + d
              /\ pc' = "poll"
              /\ UNCHANGED << attempt, exc, backoffs, attemptErrs, pending >>
         \/ \E e \in GetErrors :
              /\ d = 0
              /\ AttemptFailed(e, myfile)
              /\ myfile' = myfile
    /\ UNCHANGED << promptVars, concVars, reqVars, chunksLeft, tmpVars, evalCalls,
                    uploadCalls, genCalls, deleteCalls, created, remote,
                    genOutcome, evalResult, respPending, response >>

\* lines 87-89: whatever the delete did, the upload-failed error is raised,
\* and line 121 wraps it
AfterLastDelete(e, deleteOk) == Raised(EvaluationFailedMsg(UploadFailedMsg(e)))

\* lines 81-89: last attempt, myfile has a name: files.delete, errors ignored
LastAttemptDelete ==
    /\ pc = "last_delete"
    /\ deleteCalls' = [deleteCalls EXCEPT ![myfile.id] = @ + 1]
    /\ \E deleteOk \in BOOLEAN :
         /\ remote' = IF deleteOk THEN remote \ {myfile.id} ELSE remote
         /\ pending' = AfterLastDelete(exc, deleteOk)
    /\ pc' = "finally"
    /\ UNCHANGED << promptVars, concVars, reqVars, chunksLeft, tmpVars, evalCalls, evalLocals,
                    uploadCalls, getCalls, genCalls, created, histVars,
                    evalResult, respPending, response >>

\* what models.generate_content can do: raise, return None, return an object
\* without text, return text None, return a text
GenerateOutcomes ==
    { [kind |-> "throw", text |-> <<>>, msg |-> e] : e \in GenerateErrors }
      \cup { [kind |-> k, text |-> <<>>, msg |-> <<>>] :
                 k \in {"none", "noattr", "textnone"} }
      \cup { [kind |-> "text", text |-> t, msg |-> <<>>] : t \in Texts }

\* lines 104-121: the outcome of evaluate() for one outcome of the call
GenerateResult(o) ==
    CASE o.kind = "throw" -> Raised(EvaluationFailedMsg(GenerationFailedMsg(o.msg)))
      [] o.kind \in {"none", "noattr"} ->
             Raised(EvaluationFailedMsg(InvalidResponseMsg))
      [] o.kind = "textnone" -> ReturnedNone
      [] OTHER -> Returned(o.text)

\* lines 93-121: the check of myfile, the prompt, the generation call
Generate ==
    /\ pc = "generate"
    /\ IF myfile.id = 0
       THEN /\ pending' = Raised(EvaluationFailedMsg(NoHandleMsg))
            /\ UNCHANGED << genCalls, genOutcome >>
       ELSE /\ genCalls' = genCalls + 1
            /\ \E o \in GenerateOutcomes :
                 /\ genOutcome' = o
                 /\ pending' = GenerateResult(o)
    /\ pc' = "finally"
    /\ UNCHANGED << promptVars, concVars, reqVars, chunksLeft, tmpVars, evalCalls, evalLocals,
                    uploadCalls, getCalls, deleteCalls, created, remote,
                    backoffs, attemptErrs, evalResult, respPending, response >>

\* a finally block that lets the error of files.delete out
AfterFinallyRaises(p, deleteOk) ==
    IF deleteOk THEN p ELSE Raised(<<"delete failed">>)

\* lines 131-133: a failing files.delete is printed, the outcome in flight stays
AfterFinally(p, deleteOk) == p

\* lines 123-133: the finally block of evaluate(), then evaluate() is left
Finally ==
    /\ pc = "finally"
    /\ IF myfile.id # 0
       THEN /\ deleteCalls' = [deleteCalls EXCEPT ![myfile.id] = @ + 1]
            /\ \E deleteOk \in BOOLEAN :
                 /\ remote' = IF deleteOk THEN remote \ {myfile.id} ELSE remote
                 /\ evalResult' = AfterFinally(pending, deleteOk)
       ELSE /\ evalResult' = pending
            /\ UNCHANGED << deleteCalls, remote >>
    /\ pc' = "respond"
    /\ UNCHANGED << promptVars, concVars, reqVars, chunksLeft, tmpVars, evalCalls, evalLocals,
                    uploadCalls, getCalls, genCalls, created, histVars,
                    pending, respPending, response >>

(***************************************************************************)
(* Request Gate: the response                                              *)
(***************************************************************************)
FailedPreconditionNeedle == <<"FAILED_PRECONDITION">>
NotActiveNeedle == <<"not in", "an", "ACTIVE state">>
GenericDetail ==
    <<"The uploaded file could not be processed.",
      "Please try again with a different file.">>

\* the status taken over from the provider's error when it names one
ErrorStatusFromProvider(m) ==
    IF Contains(m, <<"503">>) THEN 503
    ELSE IF Contains(m, FailedPreconditionNeedle) \/ Contains(m, NotActiveNeedle)
    THEN HTTP_400_BAD_REQUEST
    ELSE HTTP_500_INTERNAL_SERVER_ERROR

\* lines 146-152: the status for an exception with message m
ErrorStatus(m) ==
    IF Contains(m, FailedPreconditionNeedle) \/ Contains(m, NotActiveNeedle)
    THEN HTTP_400_BAD_REQUEST
    ELSE HTTP_500_INTERNAL_SERVER_ERROR

\* lines 146-152: the detail for an exception with message m
ErrorDetail(m) ==
    IF Contains(m, FailedPreconditionNeedle) \/ Contains(m, NotActiveNeedle)
    THEN GenericDetail
    ELSE m

\* lines 145-162: the HTTPException for an exception with message m
EvaluationFailedResponse(m, sn, dn) ==
    HTTPError(ErrorStatus(m), "evaluation_failed",
              <<"Evaluation failed:">> \o ErrorDetail(m), sn, dn)

\* the regular expression of line 128, piece by piece
ScoreLabel == "Overall Score:"
\* \s
IsSpace(c) == c \in {" ", "\n"}
\* \d
IsDigit(c) == c \in {"0", "1", "2", "3", "4", "5", "6", "7", "8", "9"}
DigitValue(c) ==
    CASE c = "0" -> 0 [] c = "1" -> 1 [] c = "2" -> 2 [] c = "3" -> 3
      [] c = "4" -> 4 [] c = "5" -> 5 [] c = "6" -> 6 [] c = "7" -> 7
      [] c = "8" -> 8 [] OTHER -> 9

\* \s* from position i: the position after the run of whitespace
RECURSIVE SkipSpaces(_, _)
SkipSpaces(t, i) ==
    IF i <= Len(t) /\ IsSpace(t[i]) THEN SkipSpaces(t, i + 1) ELSE i

\* \d+ from position i: the position after the run of digits
RECURSIVE SkipDigits(_, _)
SkipDigits(t, i) ==
    IF i <= Len(t) /\ IsDigit(t[i]) THEN SkipDigits(t, i + 1) ELSE i

\* float(score_match.group(1)) for the digits at positions i..j-1, read
\* left to right with acc the value so far
RECURSIVE DigitsToNumber(_, _, _, _)
DigitsToNumber(t, i, j, acc) ==
    IF i >= j THEN acc
    ELSE DigitsToNumber(t, i + 1, j, 10 * acc + DigitValue(t[i]))

\* the pattern matches with the label at position i
MatchesAt(t, i) ==
    /\ t[i] = ScoreLabel
    /\ LET j == SkipSpaces(t, i + 1)
           k == SkipDigits(t, j)
       IN  k > j /\ k <= Len(t) /\ t[k] = "/"

\* group(1) of the match with the label at position i, as a number
GroupAt(t, i) ==
    LET j == SkipSpaces(t, i + 1)
    IN  DigitsToNumber(t, j, SkipDigits(t, j), 0)

\* re.search scanning from position i: the leftmost match decides
RECURSIVE SearchFrom(_, _)
SearchFrom(t, i) ==
    IF i > Len(t) THEN NoScore
    ELSE IF MatchesAt(t, i) THEN GroupAt(t, i)
    ELSE SearchFrom(t, i + 1)

\* the score taken from the last occurrence instead of the first
ExtractScoreLast(t) ==
    IF \A i \in 1..Len(t) : ~MatchesAt(t, i) THEN NoScore
    ELSE GroupAt(t, CHOOSE i \in 1..Len(t) :
                        MatchesAt(t, i) /\ \A j \in (i + 1)..Len(t) : ~MatchesAt(t, j))

\* lines 124-133: the score parsed from the evaluation text; an empty text
\* is falsy at line 125 and is not searched
ExtractScore(t) == IF t = <<>> THEN NoScore ELSE SearchFrom(t, 1)

\* lines 116-162: the response for what evaluate() returned or raised;
\* evaluation=None does not validate as EvaluationResponse and is caught
\* by line 145
ResponseFor(r, sn, dn) ==
    CASE r.kind = "ok" -> EvaluationResponse(r.text, sn, dn, ExtractScore(r.text))
      [] r.kind = "oknone" -> EvaluationFailedResponse(ValidationErrorMsg, sn, dn)
      [] OTHER -> EvaluationFailedResponse(r.msg, sn, dn)

Respond ==
    /\ pc = "respond"
    /\ respPending' = ResponseFor(evalResult, step_name, deliverable_name)
    /\ pc' = "cleanup"
    /\ UNCHANGED << promptVars, concVars, reqVars, chunksLeft, tmpVars, evalCalls, evalLocals,
                    callVars, histVars, pending, evalResult, response >>

\* lines 169-170: a failing os.remove is printed, the response in flight stays
AfterRemove(r, removeOk) == r

\* lines 164-170: the finally block of evaluate_document
CleanupTmp ==
    /\ pc = "cleanup"
    /\ IF tmp_path # "" /\ tmpExists
       THEN /\ removeCalls' = removeCalls + 1
            /\ \E removeOk \in BOOLEAN :
                 /\ tmpExists' = ~removeOk
                 /\ response' = AfterRemove(respPending, removeOk)
       ELSE /\ response' = respPending
            /\ UNCHANGED << removeCalls, tmpExists >>
    /\ pc' = "done"
    /\ UNCHANGED << promptVars, concVars, reqVars, chunksLeft, tmp_path, tmpCreated, evalCalls,
                    evalLocals, callVars, histVars, pending, evalResult,
                    respPending >>

Next ==
    \/ Validate
    \/ CreateTempFile
    \/ CopyChunk
    \/ FinishCopy
    \/ ConstructEvaluator
    \/ EvalStart
    \/ Upload
    \/ Poll
    \/ GetStatus
    \/ LastAttemptDelete
    \/ Generate
    \/ Finally
    \/ Respond
    \/ CleanupTmp

Spec == Init /\ [][Next]_vars

(***************************************************************************)
(* Several requests side by side.  Each runs evaluate_document with its    *)
(* own locals (inflight[r]); they share the temp directory (disk[n] is the *)
(* request that created the file named n, 0 when no such file exists) and  *)
(* the provider's file store, where the file made by upload number k of    *)
(* request r is named <<r, k>>.  A step is what runs between two awaits.   *)
(* foreign records that a request read, polled, passed to generation or    *)
(* deleted a file or handle another request created.                       *)
(***************************************************************************)
\* a temp-file name chosen without regard to the files that exist
NamedTemporaryFileAnyName(d) == TmpNames

\* line 94: NamedTemporaryFile creates the file under a name no existing
\* file has (mkstemp opens with O_EXCL)
NamedTemporaryFile(d) == { n \in TmpNames : d[n] = 0 }

\* a provider handing out one and the same name for every upload
NewHandleSameName(r, k) == << 1, 1 >>

\* lines 51-54: files.upload names every uploaded file anew; the name of
\* the file made by upload number k of request r
NewHandle(r, k) == << r, k >>

\* request r touches the temp file named n, which another request created
ForeignFile(r, n, d) == n # NoPath /\ d[n] \notin {0, r}

\* request r touches handle h, which another request's upload returned
ForeignHandle(r, h) == h # NoHandle /\ h[1] # r

\* lines 78-91: the locals after an attempt of request q failed holding f
RequestAfterFailure(q, f) ==
    IF IsLastAttempt(q.attempt)
    THEN [q EXCEPT !.myfile = f, !.pc = "finally"]
    ELSE [q EXCEPT !.myfile = f, !.attempt = @ + 1, !.pc = "upload"]

\* lines 81-88: the handle the handler deletes when an attempt failed, 0
\* when it deletes none
HandlerDeletes(q, f) == IF IsLastAttempt(q.attempt) THEN f ELSE NoHandle

\* line 94: the temp file is created, or NamedTemporaryFile raises (500)
RequestCreateTempFile(r) ==
    /\ inflight[r].pc = "create_tmp"
    /\ \/ \E n \in NamedTemporaryFile(disk) :
            /\ disk' = [disk EXCEPT ![n] = r]
            /\ inflight' = [inflight EXCEPT ![r].tmp = n, ![r].pc = "copy"]
       \/ /\ inflight' = [inflight EXCEPT ![r] = [NewRequest EXCEPT !.pc = "done"]]
          /\ disk' = disk
    /\ UNCHANGED << promptVars, seqVars, foreign >>

\* lines 96-112: the upload is copied and tmp_path = tmp.name, or file.read,
\* tmp.write or GeminiDocEvaluator() raises (500) and the file stays behind
RequestCopy(r) ==
    /\ inflight[r].pc = "copy"
    /\ \/ inflight' = [inflight EXCEPT ![r].tmp_path = inflight[r].tmp,
                                       ![r].tmp = NoPath,
                                       ![r].pc = "eval_start"]
       \/ inflight' = [inflight EXCEPT ![r] = [NewRequest EXCEPT !.pc = "done"]]
    /\ UNCHANGED << promptVars, seqVars, disk, foreign >>

\* project_doc.py lines 37-46: os.path.exists(file_path)
RequestEvalStart(r) ==
    /\ inflight[r].pc = "eval_start"
    /\ inflight' = [inflight EXCEPT ![r].pc =
                       IF disk[inflight[r].tmp_path] = 0 THEN "finally"
                       ELSE "upload"]
    /\ foreign' = (foreign \/ ForeignFile(r, inflight[r].tmp_path, disk))
    /\ UNCHANGED << promptVars, seqVars, disk >>

\* lines 51-61 and 73-91: files.upload(file=file_path) reads the temp file
\* and returns a new handle - ready, PROCESSING or in a failed state - or
\* raises
RequestUpload(r) ==
    /\ inflight[r].pc = "upload"
    /\ LET q == inflight[r]
           h == NewHandle(r, q.attempt + 1)
       IN  \/ \E next \in {"generate", "poll"} :
                /\ inflight' = [inflight EXCEPT ![r].myfile = h, ![r].pc = next]
                /\ foreign' = (foreign \/ ForeignFile(r, q.tmp_path, disk))
           \/ /\ inflight' = [inflight EXCEPT ![r] = RequestAfterFailure(q, h)]
              /\ foreign' = (\/ foreign
                             \/ ForeignFile(r, q.tmp_path, disk)
                             \/ ForeignHandle(r, HandlerDeletes(q, h)))
           \/ /\ inflight' = [inflight EXCEPT ![r] = RequestAfterFailure(q, q.myfile)]
              /\ foreign' = (\/ foreign
                             \/ ForeignFile(r, q.tmp_path, disk)
                             \/ ForeignHandle(r, HandlerDeletes(q, q.myfile)))
    /\ UNCHANGED << promptVars, seqVars, disk >>

\* lines 62-91: one pass of the poll loop: the timeout is raised, or
\* files.get(name=myfile.name) finds the handle still PROCESSING, ACTIVE,
\* or failed (or raises)
RequestPoll(r) ==
    /\ inflight[r].pc = "poll"
    /\ LET q == inflight[r] IN
       \/ /\ inflight' = [inflight EXCEPT ![r] = RequestAfterFailure(q, q.myfile)]
          /\ foreign' = (foreign \/ ForeignHandle(r, HandlerDeletes(q, q.myfile)))
       \/ \E next \in {"poll", "generate"} :
            /\ inflight' = [inflight EXCEPT ![r].pc = next]
            /\ foreign' = (foreign \/ ForeignHandle(r, q.myfile))
       \/ /\ inflight' = [inflight EXCEPT ![r] = RequestAfterFailure(q, q.myfile)]
          /\ foreign' = (\/ foreign
                         \/ ForeignHandle(r, q.myfile)
                         \/ ForeignHandle(r, HandlerDeletes(q, q.myfile)))
    /\ UNCHANGED << promptVars, seqVars, disk >>

\* lines 93-121: generate_content(contents=[myfile, prompt])
RequestGenerate(r) ==
    /\ inflight[r].pc = "generate"
    /\ inflight' = [inflight EXCEPT ![r].pc = "finally"]
    /\ foreign' = (foreign \/ ForeignHandle(r, inflight[r].myfile))
    /\ UNCHANGED << promptVars, seqVars, disk >>

\* lines 123-133: files.delete(name=myfile.name) when a handle is held
RequestFinally(r) ==
    /\ inflight[r].pc = "finally"
    /\ inflight' = [inflight EXCEPT ![r].pc = "cleanup"]
    /\ foreign' = (foreign \/ ForeignHandle(r, inflight[r].myfile))
    /\ UNCHANGED << promptVars, seqVars, disk >>

\* eval.py lines 164-170: os.remove(tmp_path) when the file exists; the
\* remove may fail; then the handler returns and its locals are gone
RequestCleanup(r) ==
    /\ inflight[r].pc = "cleanup"
    /\ LET n == inflight[r].tmp_path IN
       IF n # NoPath /\ disk[n] # 0
       THEN /\ \E removeOk \in BOOLEAN :
                 disk' = IF removeOk THEN [disk EXCEPT ![n] = 0] ELSE disk
            /\ foreign' = (foreign \/ ForeignFile(r, n, disk))
       ELSE UNCHANGED << disk, foreign >>
    /\ inflight' = [inflight EXCEPT ![r] = [NewRequest EXCEPT !.pc = "done"]]
    /\ UNCHANGED << promptVars, seqVars >>

ConcurrentInit ==
    /\ Init
    /\ filename = <<>> /\ step_name = "" /\ deliverable_name = ""
    /\ size = NoSize

ConcurrentNext ==
    \E r \in Requests :
        \/ RequestCreateTempFile(r)
        \/ RequestCopy(r)
        \/ RequestEvalStart(r)
        \/ RequestUpload(r)
        \/ RequestPoll(r)
        \/ RequestGenerate(r)
        \/ RequestFinally(r)
        \/ RequestCleanup(r)

ConcurrentSpec == ConcurrentInit /\ [][ConcurrentNext]_vars

(***************************************************************************)
(* GeminiDocEvaluator._create_evaluation_prompt called on its own.  A step *)
(* name is a sequence of text fragments, none of which overlaps a category *)
(* name in part; the prompt is the sequence of its pieces.                 *)
(***************************************************************************)
PromptStepNames ==
    { <<>>,
      <<"Research & Data Collection">>,
      <<"Data Analysis & Visualization">>,
      <<"UI Design">>,
      <<"Step 3:", "UI Design", "(final)">>,
      <<"UI Design", "and", "Research & Data Collection">>,
      <<"UI Design", "and", "Data Analysis & Visualization">>,
      <<"Data Analysis & Visualization", "and", "Research & Data Collection">>,
      <<"UI Design", "Data Analysis & Visualization", "Research & Data Collection">>,
      <<"UI/UX Design">>,
      <<"research & data collection">>,
      <<"Testing">> }
PromptDeliverableNames == { "Survey Results", "Wireframes" }
PromptContexts == { NoContext, Context(""), Context("second draft") }

\* the first line of each rubric block: lines 188, 201, 214, 228
ResearchRubric == "#### Rubric: Research & Data Collection"
AnalysisRubric == "#### Rubric: Data Analysis & Visualization"
DesignRubric == "#### Rubric: UI/UX Design"
GeneralRubric == "#### Rubric: General Assessment"

\* the rubric blocks added by three separate tests instead of one chain
RubricBlocksEveryMatch(sn) ==
    (IF Contains(sn, <<"Research & Data Collection">>)
     THEN <<ResearchRubric>> ELSE <<>>)
      \o (IF Contains(sn, <<"Data Analysis & Visualization">>)
          THEN <<AnalysisRubric>> ELSE <<>>)
      \o (IF Contains(sn, <<"UI Design">>)
          THEN <<DesignRubric>> ELSE <<GeneralRubric>>)

\* lines 186-238: the rubric block the if/elif/else chain adds for sn
RubricBlocks(sn) ==
    IF Contains(sn, <<"Research & Data Collection">>) THEN <<ResearchRubric>>
    ELSE IF Contains(sn, <<"Data Analysis & Visualization">>) THEN <<AnalysisRubric>>
    ELSE IF Contains(sn, <<"UI Design">>) THEN <<DesignRubric>>
    ELSE <<GeneralRubric>>

\* lines 137-183: the f-string; the context line is there when
\* additional_context is neither None nor empty
BasePrompt(sn, dn, ctx) ==
    <<"You are an expert evaluator", "- Step:">> \o sn
      \o <<"- Deliverable:", dn>>
      \o (IF ctx.given /\ ctx.text # ""
          THEN <<"**Additional Context**:", ctx.text>> ELSE <<>>)
      \o <<"**INSTRUCTIONS**", "## Evaluation for">> \o sn
      \o <<"-", dn, "### Overall Score: [X]/30", "**RUBRIC FOR">> \o sn
      \o <<"**:">>

\* lines 240-252: the closing instructions
EvaluationInstructions == <<"**EVALUATION INSTRUCTIONS**", "**IMPORTANT**">>

\* lines 135-254: _create_evaluation_prompt; strip() finds no blank at
\* either end of the pieces
create_evaluation_prompt(sn, dn, ctx) ==
    BasePrompt(sn, dn, ctx) \o RubricBlocks(sn) \o EvaluationInstructions

\* one call of _create_evaluation_prompt with the arguments chosen
CreateEvaluationPrompt ==
    /\ Len(prompts) < MaxPromptCalls
    /\ prompts' = Append(prompts,
                         create_evaluation_prompt(promptArgs.step_name,
                                                  promptArgs.deliverable_name,
                                                  promptArgs.additional_context))
    /\ UNCHANGED << promptArgs, seqVars, concVars >>

PromptInit ==
    /\ NoRequestStarted
    /\ RequestReceived
    /\ filename = <<>> /\ step_name = "" /\ deliverable_name = ""
    /\ size = NoSize
    /\ promptArgs \in [step_name : PromptStepNames,
                        deliverable_name : PromptDeliverableNames,
                        additional_context : PromptContexts]
    /\ prompts = <<>>

PromptNext == CreateEvaluationPrompt

PromptSpec == PromptInit /\ [][PromptNext]_vars

\* every awaited call and sleep returns (asyncio.to_thread, asyncio.sleep)
\* and the event loop resumes the coroutine: a request that can take a step
\* takes one
FairSpec == Spec /\ WF_vars(Next)

TypeOK ==
    /\ pc \in {"validate", "create_tmp", "copy", "construct", "eval_start",
               "upload", "poll", "get", "last_delete", "generate", "finally",
               "respond", "cleanup", "done"}
    /\ attempt \in 0..(max_retries - 1)
    /\ uploadCalls \in 0..max_retries
    /\ myfile.id \in 0..max_retries
    /\ disk \in [TmpNames -> {0} \cup Requests]
    /\ foreign \in BOOLEAN
    /\ \A r \in Requests :
           /\ inflight[r].pc \in {"create_tmp", "copy", "eval_start", "upload",
                                  "poll", "generate", "finally", "cleanup", "done"}
           /\ inflight[r].attempt \in 0..(max_retries - 1)
           /\ inflight[r].tmp \in {NoPath} \cup TmpNames
           /\ inflight[r].tmp_path \in {NoPath} \cup TmpNames

(***************************************************************************)
(* Properties                                                              *)
(***************************************************************************)
\* evaluate() has returned or raised
EvaluateLeft == evalCalls = 1 /\ pc \in {"respond", "cleanup", "done"}

\* the request has been answered
RequestDone == pc = "done"

\* the third attempt failed: the upload phase ended in failure
UploadPhaseFailed == Len(attemptErrs) = max_retries

LastAttemptErr == attemptErrs[max_retries]

StrictlyIncreasing(q) == \A i \in 1..(Len(q) - 1) : q[i] < q[i + 1]

\* C1: when evaluate() has returned or raised, files.delete has been issued
\* for every handle a successful files.upload returned during it.
NoHandleOutlivesEvaluate ==
    EvaluateLeft => \A h \in created : deleteCalls[h] >= 1

\* C2: when evaluate() has returned or raised, files.delete has been invoked
\* exactly once, never twice, for the handle evaluate() holds.
HandleDeletedExactlyOnce ==
    EvaluateLeft /\ myfile.id # 0 => deleteCalls[myfile.id] = 1

\* C3: when a request that created a temp file completes, the temp file has
\* been removed exactly once and does not remain.
TempFileRemovedOnce ==
    RequestDone /\ tmpCreated > 0 => ~tmpExists /\ removeCalls = 1

\* the outcome of evaluate() as the upload, get and generate outcomes alone
\* decide it
PrimaryOutcome ==
    IF genOutcome.kind # "nocall"
    THEN CASE genOutcome.kind = "throw" ->
                  Raised(<<"Evaluation failed:", "Content generation failed:">>
                             \o genOutcome.msg)
           [] genOutcome.kind = "text" -> Returned(genOutcome.text)
           [] genOutcome.kind = "textnone" -> ReturnedNone
           [] OTHER -> Raised(<<"Evaluation failed:",
                                "Invalid response from Gemini API">>)
    ELSE Raised(<<"Evaluation failed:", "Failed to upload file after", "3",
                  "attempts:">> \o LastAttemptErr)

\* a files.delete call has failed: a handle it was issued for is still stored
SomeDeleteFailed == \E h \in created : deleteCalls[h] > 0 /\ h \in remote

\* os.remove has failed: it was called and the temp file is still there
RemoveFailed == removeCalls > 0 /\ tmpExists

\* C4: what evaluate() reports is decided by the upload, get and generate
\* outcomes alone, and what evaluate_document answers is the response built
\* from it: a failing files.delete or os.remove changes neither.
CleanupNeverChangesOutcome ==
    /\ EvaluateLeft /\ uploadCalls > 0 => evalResult = PrimaryOutcome
    /\ EvaluateLeft /\ uploadCalls > 0 /\ RequestDone =>
           /\ response = respPending
           /\ response.status = HTTP_200_OK <=> PrimaryOutcome.kind = "ok"
           /\ response.status = HTTP_200_OK => response.evaluation = PrimaryOutcome.text
           /\ response.status # HTTP_200_OK => response.error = "evaluation_failed"

\* C4 witness: a request answered 200 although files.delete and os.remove failed
CleanupFailedWitness ==
    /\ RequestDone
    /\ SomeDeleteFailed
    /\ RemoveFailed
    /\ response.status = HTTP_200_OK

\* C5: when fewer than 3 attempts failed, the next one succeeded (handle
\* ACTIVE or without state) and generation returned text, evaluate() returns
\* that text, at most 3 uploads were made, one per attempt, and the backoff
\* delays between the attempts are strictly increasing.
RetryThenSuccess ==
    EvaluateLeft /\ Len(attemptErrs) < max_retries
                 /\ (~myfile.hasState \/ myfile.state = "ACTIVE")
                 /\ genOutcome.kind = "text"
      => /\ evalResult = Returned(genOutcome.text)
         /\ uploadCalls = Len(attemptErrs) + 1
         /\ uploadCalls <= max_retries
         /\ Len(backoffs) = uploadCalls - 1
         /\ StrictlyIncreasing(backoffs)

\* C5 witness: two failed attempts, then success
RetryThenSuccessWitness ==
    /\ EvaluateLeft
    /\ Len(attemptErrs) = 2
    /\ genOutcome.kind = "text"
    /\ evalResult.kind = "ok"
    /\ backoffs = <<2, 4>>

\* C6: never more than 3 uploads; when all 3 attempts raised, the error in
\* flight and the error evaluate() raises is the upload-failed error with the
\* third attempt's message, and a handle held at that point has had a delete
\* issued before the finally block runs.
UploadBudgetExhausted ==
    /\ uploadCalls <= max_retries
    /\ UploadPhaseFailed /\ pc = "finally" =>
           /\ pending = Raised(<<"Evaluation failed:", "Failed to upload file after",
                                 "3", "attempts:">> \o LastAttemptErr)
           /\ myfile.id # 0 => deleteCalls[myfile.id] >= 1
    /\ UploadPhaseFailed /\ EvaluateLeft =>
           /\ evalResult = Raised(<<"Evaluation failed:", "Failed to upload file after",
                                    "3", "attempts:">> \o LastAttemptErr)
           /\ genCalls = 0

\* C6 witness: three failed attempts with different errors and a handle held
UploadBudgetWitness ==
    /\ pc = "finally"
    /\ UploadPhaseFailed
    /\ myfile.id # 0
    /\ attemptErrs[1] # attemptErrs[3]
    /\ attemptErrs[2] # attemptErrs[3]

\* the messages of an attempt that failed on the state of the remote file
IsNotActiveMsg(e) == \E st \in HandleStates : e = NotActiveMsg(st)
FileStateMsgs == {TimeoutMsg} \cup { NotActiveMsg(st) : st \in HandleStates }

\* C7 as stated: once an attempt has timed out in PROCESSING, or has seen a
\* terminal state other than ACTIVE, evaluate() fails with that error.
FileStateFailureFailsEvaluate ==
    EvaluateLeft =>
        \A i \in 1..Len(attemptErrs) :
            attemptErrs[i] \in FileStateMsgs =>
                /\ evalResult.kind = "err"
                /\ Contains(evalResult.msg, attemptErrs[i])

\* C7 amended: a poll of a handle still PROCESSING more than 30 s after the
\* upload returned, and only such a poll, fails the attempt with the timeout
\* error; a poll that sees a state other than PROCESSING and ACTIVE fails the
\* attempt with the not-ACTIVE error naming that state; a failed attempt
\* before the third is retried, and evaluate() fails with the error, inside
\* the upload-failed error, when the third attempt fails so.
FileStateFailureFailsAttempt ==
    /\ [][pc = "poll" =>
            /\ (myfile.state = "PROCESSING" /\ waited > max_processing_time)
                 <=> attemptErrs' = Append(attemptErrs, TimeoutMsg)
            /\ myfile.state \notin {"PROCESSING", "ACTIVE"}
                 <=> attemptErrs' = Append(attemptErrs, NotActiveMsg(myfile.state))
            /\ Len(attemptErrs') > Len(attemptErrs) /\ attempt < max_retries - 1
                 => pc' = "upload" /\ attempt' = attempt + 1
            /\ Len(attemptErrs') > Len(attemptErrs) /\ attempt = max_retries - 1
                 => pc' = "last_delete"]_vars
    /\ [](EvaluateLeft /\ UploadPhaseFailed /\ LastAttemptErr \in FileStateMsgs
            => evalResult = Raised(<<"Evaluation failed:",
                                     "Failed to upload file after", "3", "attempts:">>
                                       \o LastAttemptErr))

\* C7 witness: evaluate() has failed on a timeout of the third attempt after
\* a not-ACTIVE failure of an earlier one
FileStateFailureWitness ==
    /\ EvaluateLeft
    /\ UploadPhaseFailed
    /\ LastAttemptErr = TimeoutMsg
    /\ attemptErrs[1] = NotActiveMsg("FAILED")
    /\ evalResult.kind = "err"

\* evaluate() failed because the third attempt saw a terminal state other
\* than ACTIVE
NotActiveFailure ==
    /\ evalResult.kind = "err"
    /\ UploadPhaseFailed
    /\ IsNotActiveMsg(LastAttemptErr)

\* evaluate() failed on something that has nothing to do with the state of the
\* remote file: an upload or get error, a generation error that is no
\* precondition failure, an invalid response
UnrelatedFailure ==
    /\ evalResult.kind = "err"
    /\ IF UploadPhaseFailed
       THEN LastAttemptErr \in UploadErrors \cup GetErrors
       ELSE ~Contains(genOutcome.msg, <<"FAILED_PRECONDITION">>)

\* C8: a request whose evaluate() failed because the remote file did not
\* reach ACTIVE is answered 400; a failure unrelated to the file's state is
\* answered 500.
FileStateFailureIs400 ==
    RequestDone /\ EvaluateLeft =>
        /\ NotActiveFailure => response.status = HTTP_400_BAD_REQUEST
        /\ UnrelatedFailure => response.status = HTTP_500_INTERNAL_SERVER_ERROR

\* the file name ends, in any letter case, with an extension of the allow-list
EndsWithAllowed(f) ==
    \E ext \in ALLOWED_EXTENSIONS :
        /\ Len(f) >= Len(ext)
        /\ \A i \in 1..Len(ext) :
               LowerChar(f[Len(f) - Len(ext) + i]) = ext[i]

\* the four conditions of the request a check rejects
BadFileType == ~EndsWithAllowed(filename)
MissingFields == step_name = "" \/ deliverable_name = ""
EmptyFile == size = 0 \/ size = NoSize
TooLarge == size > 50 * 1024 * 1024
Invalid == BadFileType \/ MissingFields \/ EmptyFile \/ TooLarge

ValidationCodes ==
    {"invalid_file_type", "missing_required_fields", "empty_file", "file_too_large"}

\* the answer to a request is the first failing check in the order type,
\* fields, empty, size, and no check's error when all four pass
FirstFailingCheckReported ==
    /\ BadFileType => response.error = "invalid_file_type"
    /\ ~BadFileType /\ MissingFields => response.error = "missing_required_fields"
    /\ ~BadFileType /\ ~MissingFields /\ EmptyFile => response.error = "empty_file"
    /\ ~BadFileType /\ ~MissingFields /\ ~EmptyFile /\ TooLarge =>
           response.error = "file_too_large"
    /\ ~Invalid => response.error \notin ValidationCodes

\* C9 as stated: the reported error is the first failing check, and a request
\* passing all four reaches the evaluator.
ValidationOrderThenEvaluator ==
    RequestDone =>
        /\ FirstFailingCheckReported
        /\ ~Invalid => evalCalls = 1

\* C9 amended: the reported error is the first failing check; a request
\* passing all four goes on to the temp file and reaches the evaluator unless
\* buffering the upload fails (500 file_processing_error) or constructing the
\* evaluator fails (500 without an error code).
ValidationOrder ==
    /\ pc # "validate" =>
           (Invalid <=> pc = "done" /\ response.error \in ValidationCodes)
    /\ RequestDone =>
           /\ FirstFailingCheckReported
           /\ ~Invalid =>
                  \/ evalCalls = 1
                  \/ /\ evalCalls = 0
                     /\ response.status = HTTP_500_INTERNAL_SERVER_ERROR
                     /\ response.error \in {"file_processing_error", ""}

\* C9 witness: a request failing the field check and the size check at once
\* is answered with the earliest one
ValidationOrderWitness ==
    /\ RequestDone
    /\ ~BadFileType /\ MissingFields /\ TooLarge
    /\ response.error = "missing_required_fields"

\* C10: a request a check rejects is answered 400 (invalid_file_type when the
\* extension is not allowed) and at no time has a temp file been created or
\* the provider been called.
ValidationHasNoSideEffects ==
    Invalid =>
        /\ tmpCreated = 0 /\ ~tmpExists /\ tmp_path = ""
        /\ uploadCalls = 0 /\ getCalls = 0 /\ genCalls = 0
        /\ \A h \in HandleIds : deleteCalls[h] = 0
        /\ evalCalls = 0
        /\ RequestDone =>
               /\ response.status = HTTP_400_BAD_REQUEST
               /\ response.error \in ValidationCodes
               /\ BadFileType => response.error = "invalid_file_type"

\* C10 witness: an oversized file with a valid name and fields answered 400
ValidationRejectedWitness ==
    /\ RequestDone
    /\ TooLarge /\ ~BadFileType /\ ~MissingFields
    /\ response.status = HTTP_400_BAD_REQUEST
    /\ response.error = "file_too_large"

\* C11: with an allowed extension and both names set, a file of size 0 or of
\* unknown size is answered empty_file, a file of 1 to 50*1024*1024 bytes is
\* rejected by no check, and a larger file is answered file_too_large with
\* max_size_mb = 50.
SizeGateBoundaries ==
    pc # "validate" /\ ~BadFileType /\ ~MissingFields =>
        /\ size = 0 \/ size = NoSize =>
               /\ RequestDone
               /\ response.status = 400 /\ response.error = "empty_file"
        /\ size >= 1 /\ size <= 50 * 1024 * 1024 =>
               response.error \notin ValidationCodes
        /\ size > 50 * 1024 * 1024 =>
               /\ RequestDone
               /\ response.status = 400 /\ response.error = "file_too_large"
               /\ response.max_size_mb = 50

\* C11 witness: a file of exactly 50 MiB has been handed to the evaluator
SizeGateWitness ==
    /\ size = 50 * 1024 * 1024
    /\ evalCalls = 1

\* C12: models.generate_content is invoked at most once and nothing is
\* uploaded or generated after it; when it raised, evaluate() fails with the
\* generation-failed error carrying its message; when the response is missing
\* or exposes no text, evaluate() fails with the invalid-response error.
GenerationNeverRetried ==
    /\ genCalls <= 1
    /\ genCalls = 1 => pc \notin {"upload", "poll", "get", "last_delete", "generate"}
    /\ genCalls = 1 => uploadCalls = Len(attemptErrs) + 1
    /\ EvaluateLeft /\ genOutcome.kind = "throw" =>
           evalResult = Raised(<<"Evaluation failed:", "Content generation failed:">>
                                   \o genOutcome.msg)
    /\ EvaluateLeft /\ genOutcome.kind \in {"none", "noattr", "textnone"} =>
           evalResult = Raised(<<"Evaluation failed:",
                                 "Invalid response from Gemini API">>)

\* C13: models.generate_content is called only with a handle that is held,
\* and whose last observed state is ACTIVE or that has no state at all;
\* never after the upload phase has used up its attempts, and never on a
\* handle last seen PROCESSING or FAILED.
GenerateOnlyWhenReady ==
    genCalls > 0 =>
        /\ myfile.id # 0
        /\ myfile.id = uploadCalls
        /\ ~myfile.hasState \/ myfile.state = "ACTIVE"
        /\ myfile.state \notin {"PROCESSING", "FAILED"}
        /\ ~UploadPhaseFailed

\* generation reached on the second upload, after a first handle was seen
\* FAILED, with a handle that was polled from PROCESSING to ACTIVE
GenerateOnlyWhenReadyWitness ==
    /\ genCalls = 1
    /\ Len(attemptErrs) = 1
    /\ IsNotActiveMsg(attemptErrs[1])
    /\ getCalls > 0
    /\ myfile.hasState /\ myfile.state = "ACTIVE"

\* the error raised inside evaluate(), before line 121 wraps it
OriginalError ==
    IF uploadCalls = 0 THEN <<"File not found:", "tmp">>
    ELSE IF UploadPhaseFailed
    THEN <<"Failed to upload file after", "3", "attempts:">> \o LastAttemptErr
    ELSE IF genOutcome.kind = "throw"
    THEN <<"Content generation failed:">> \o genOutcome.msg
    ELSE <<"Invalid response from Gemini API">>

\* something raised inside evaluate()
SomethingRaised ==
    \/ uploadCalls = 0
    \/ UploadPhaseFailed
    \/ genOutcome.kind \in {"throw", "none", "noattr"}

\* C14: whatever raised inside evaluate() - missing local file, upload
\* failure, timeout, non-ACTIVE state, generation failure, invalid response -
\* the caller gets one error, "Evaluation failed:" followed by the message
\* of the error that was raised, also when a files.delete of the cleanup
\* failed; and evaluate() raises nothing when nothing of these raised.
FailureWrappedOnce ==
    EvaluateLeft =>
        /\ SomethingRaised =>
               /\ evalResult.kind = "err"
               /\ evalResult.msg = <<"Evaluation failed:">> \o OriginalError
               /\ Contains(evalResult.msg, OriginalError)
               /\ UploadPhaseFailed => Contains(evalResult.msg, LastAttemptErr)
        /\ evalResult.kind = "err" => SomethingRaised

\* the third attempt timed out, the delete of its handle failed in the
\* handler and again in the finally block, and the caller got an error
FailureWrappedWitness ==
    /\ EvaluateLeft
    /\ UploadPhaseFailed
    /\ LastAttemptErr = TimeoutMsg
    /\ myfile.id = max_retries
    /\ deleteCalls[myfile.id] = 2
    /\ myfile.id \in remote
    /\ evalResult.kind = "err"

\* positions i of text t where the label stands, followed by whitespace up
\* to j, one or more digits up to k, and a slash at k
Occurrences(t) ==
    { occ \in (1..Len(t)) \X (1..Len(t)) \X (1..Len(t)) :
        /\ t[occ[1]] = "Overall Score:"
        /\ occ[1] < occ[2] /\ occ[2] < occ[3]
        /\ \A x \in (occ[1] + 1)..(occ[2] - 1) : t[x] \in {" ", "\n"}
        /\ \A x \in occ[2]..(occ[3] - 1) :
               t[x] \in {"0", "1", "2", "3", "4", "5", "6", "7", "8", "9"}
        /\ t[occ[3]] = "/" }

\* the decimal value of a one- or two-digit numeral
NumeralValue(d) ==
    LET v(c) == CHOOSE n \in 0..9 :
                    <<"0", "1", "2", "3", "4", "5", "6", "7", "8", "9">>[n + 1] = c
    IN  IF Len(d) = 1 THEN v(d[1]) ELSE 10 * v(d[1]) + v(d[2])

\* the score the text carries: the number of its first occurrence
FirstOccurrenceScore(t) ==
    IF Occurrences(t) = {} THEN NoScore
    ELSE LET first == CHOOSE occ \in Occurrences(t) :
                          \A o \in Occurrences(t) : occ[1] <= o[1]
         IN  NumeralValue(SubSeq(t, first[2], first[3] - 1))

\* C15: a request answered 200 carries the score of the first occurrence of
\* "Overall Score:", optional whitespace, digits and a slash in the
\* evaluation text ("Overall Score: 23/30" gives 23); a text without such
\* an occurrence is answered 200 with no score.
ScoreIsFirstOccurrence ==
    /\ response.status = HTTP_200_OK =>
           /\ response.score = FirstOccurrenceScore(response.evaluation)
           /\ Occurrences(response.evaluation) = {} <=> response.score = NoScore
    /\ response.evaluation = <<"Overall Score:", " ", "2", "3", "/", "3", "0">> =>
           response.score = 23
    /\ RequestDone /\ evalResult.kind = "ok" =>
           /\ response.status = HTTP_200_OK
           /\ response.evaluation = evalResult.text

\* a text with two occurrences was answered with the score of the first
ScoreIsFirstOccurrenceWitness ==
    /\ RequestDone
    /\ response.status = HTTP_200_OK
    /\ response.evaluation =
           <<"Overall Score:", "4", "/", "Overall Score:", " ", "9", "/">>
    /\ response.score = 4

\* the success part of C17: text unchanged, names echoed, 200 only for text
SuccessEcho ==
    /\ RequestDone /\ evalResult.kind = "ok" =>
           /\ response.status = HTTP_200_OK
           /\ response.evaluation = evalResult.text
           /\ response.step_name = step_name
           /\ response.deliverable_name = deliverable_name
    /\ response.status = HTTP_200_OK =>
           /\ RequestDone
           /\ evalCalls = 1
           /\ evalResult.kind = "ok"
           /\ genOutcome.kind = "text" /\ response.evaluation = genOutcome.text

\* C17 as stated: on success the response is 200 with the evaluator's text
\* unchanged and both names echoed, 200 is returned only if evaluate()
\* returned text, and evaluate() is invoked exactly once for every request
\* that passes validation.
SuccessEchoAndOneEvaluation ==
    /\ SuccessEcho
    /\ RequestDone /\ ~Invalid => evalCalls = 1

\* C17 amended: the success part as stated; evaluate() is invoked at most
\* once, never for a request that fails validation, and exactly once for a
\* request that passes validation unless buffering the upload failed or
\* constructing the evaluator failed, which are answered 500.
SuccessEchoAtMostOneEvaluation ==
    /\ SuccessEcho
    /\ evalCalls <= 1
    /\ Invalid => evalCalls = 0
    /\ RequestDone /\ ~Invalid /\ evalCalls = 0 =>
           /\ response.status = HTTP_500_INTERNAL_SERVER_ERROR
           /\ \/ response.error = "file_processing_error" /\ tmp_path = ""
              \/ response.error = "" /\ tmp_path # ""

\* a request with both names set answered 200 with the text generated on
\* the second upload attempt
SuccessEchoWitness ==
    /\ RequestDone
    /\ response.status = HTTP_200_OK
    /\ response.evaluation = <<"fine">>
    /\ response.step_name = "Research & Data Collection"
    /\ response.deliverable_name = "Survey Results"
    /\ uploadCalls = 2
    /\ evalCalls = 1

\* the most files.get calls one attempt can make: one every retry_delay
\* seconds until more than max_processing_time seconds have passed
MaxPolls == max_processing_time \div retry_delay + 1

\* C18: when every remote call and sleep returns, evaluate() once entered is
\* eventually left, after at most 3 uploads and at most MaxPolls status polls
\* for each of them, and the request is eventually answered - also when
\* every handle stays PROCESSING or every upload raises.
EvaluateTerminates ==
    /\ [](uploadCalls <= max_retries)
    /\ [](getCalls <= MaxPolls * uploadCalls)
    /\ [](waited <= max_processing_time + retry_delay + MaxCallTime)
    /\ (pc = "eval_start") ~> EvaluateLeft
    /\ <>RequestDone

\* three uploads whose handles stayed PROCESSING until each timed out, with
\* every poll of the budget made, and the request answered
EvaluateTerminatesWitness ==
    /\ RequestDone
    /\ uploadCalls = max_retries
    /\ getCalls = MaxPolls * max_retries
    /\ attemptErrs = <<TimeoutMsg, TimeoutMsg, TimeoutMsg>>

\* C19: the sleep after the k-th failed attempt, k = 1, 2, is 2 s times k
\* (2 s, then 4 s) and comes before the next upload; the third failed
\* attempt is followed by no sleep, the failure is raised at once.
BackoffSchedule ==
    /\ backoffs \in { <<>>, <<2>>, <<2, 4>> }
    /\ \A k \in 1..Len(backoffs) : backoffs[k] = retry_delay * k
    /\ Len(attemptErrs) < max_retries => Len(backoffs) = Len(attemptErrs)
    /\ UploadPhaseFailed => Len(backoffs) = max_retries - 1
    /\ uploadCalls <= Len(backoffs) + 1
    /\ pc = "upload" => uploadCalls = Len(backoffs)

\* all three attempts failed: two sleeps were made, none after the third
BackoffScheduleWitness ==
    /\ EvaluateLeft
    /\ UploadPhaseFailed
    /\ uploadCalls = max_retries
    /\ backoffs = <<2, 4>>
    /\ evalResult.kind = "err"

\* evaluate() holds a handle that files.upload returned without a state
Stateless == myfile.id # 0 /\ ~myfile.hasState

\* C20: a handle returned without a state is ready at once: the upload that
\* returned it is followed by generation, no files.get and no further
\* upload is made while it is held, and when evaluate() is left
\* generate_content has been called and files.delete was issued for it.
StatelessHandleIsReady ==
    /\ [](Stateless =>
             /\ pc \in {"generate", "finally", "respond", "cleanup", "done"}
             /\ pc # "generate" => genCalls = 1
             /\ myfile.id = uploadCalls
             /\ EvaluateLeft => deleteCalls[myfile.id] = 1)
    /\ [][Stateless => getCalls' = getCalls /\ uploadCalls' = uploadCalls]_vars
    /\ [][~Stateless /\ Stateless' =>
             /\ pc = "upload" /\ pc' = "generate"
             /\ uploadCalls' = uploadCalls + 1
             /\ getCalls' = getCalls]_vars

\* the first upload returned a handle without a state; no files.get was
\* made, text was generated and the handle deleted
StatelessHandleWitness ==
    /\ EvaluateLeft
    /\ Stateless
    /\ uploadCalls = 1
    /\ getCalls = 0
    /\ genOutcome.kind = "text"
    /\ deleteCalls[myfile.id] = 1
    /\ myfile.id \notin remote

\* request r is being handled
InFlight(r) == inflight[r].pc # "done"

\* C16: however the steps of the requests interleave, no request reads,
\* polls, passes to generation or deletes a temp file or a handle another
\* request created: what a request holds is its own, and two requests
\* never hold the same temp file or the same handle.
RequestsIsolated ==
    /\ ~foreign
    /\ \A r \in Requests :
           /\ inflight[r].tmp # NoPath => disk[inflight[r].tmp] = r
           /\ inflight[r].tmp_path # NoPath => disk[inflight[r].tmp_path] \in {0, r}
           /\ inflight[r].myfile # NoHandle => inflight[r].myfile[1] = r
    /\ \A r1, r2 \in Requests :
           r1 # r2 /\ InFlight(r1) /\ InFlight(r2) =>
               /\ inflight[r1].tmp_path # NoPath =>
                      inflight[r1].tmp_path \notin {inflight[r2].tmp_path, inflight[r2].tmp}
               /\ inflight[r1].myfile # NoHandle =>
                      inflight[r1].myfile # inflight[r2].myfile

\* two requests in flight at once, one polling its second handle while the
\* other is about to generate with its own, both temp files on disk
RequestsIsolatedWitness ==
    /\ inflight[1].pc = "poll" /\ inflight[1].attempt = 1
    /\ inflight[2].pc = "generate"
    /\ inflight[1].myfile = << 1, 2 >>
    /\ inflight[2].myfile = << 2, 1 >>
    /\ disk[inflight[1].tmp_path] = 1
    /\ disk[inflight[2].tmp_path] = 2

\* the step categories in the order of their precedence, each with the
\* text looked for and the rubric it selects
Precedence ==
    << [needle |-> "Research & Data Collection", rubric |-> ResearchRubric],
       [needle |-> "Data Analysis & Visualization", rubric |-> AnalysisRubric],
       [needle |-> "UI Design", rubric |-> DesignRubric] >>

\* step name sn has the text needle in it
Mentions(sn, needle) == \E k \in 1..Len(sn) : sn[k] = needle

\* prompt p has the rubric block headed rb
Embeds(p, rb) == \E k \in 1..Len(p) : p[k] = rb

\* number of rubric blocks in prompt p
RubricCount(p) ==
    Cardinality({ k \in 1..Len(p) :
                    p[k] \in {ResearchRubric, AnalysisRubric, DesignRubric,
                              GeneralRubric} })

\* C21: every prompt built embeds exactly one rubric: that of the first
\* category, in the order Research & Data Collection, Data Analysis &
\* Visualization, UI Design, whose name step_name contains, and the generic
\* rubric when it contains none; building the prompt again for the same
\* arguments gives the same prompt.
RubricByPrecedence ==
    \A i \in 1..Len(prompts) :
        LET p == prompts[i]
            sn == promptArgs.step_name
        IN  /\ RubricCount(p) = 1
            /\ \A c \in 1..Len(Precedence) :
                   Embeds(p, Precedence[c].rubric) <=>
                       /\ Mentions(sn, Precedence[c].needle)
                       /\ \A d \in 1..(c - 1) : ~Mentions(sn, Precedence[d].needle)
            /\ Embeds(p, GeneralRubric) <=>
                   \A c \in 1..Len(Precedence) : ~Mentions(sn, Precedence[c].needle)
            /\ p = prompts[1]

\* the prompt built twice for a step name that contains "UI Design" before
\* "Research & Data Collection": both times the research rubric
RubricByPrecedenceWitness ==
    /\ Len(prompts) = 2
    /\ promptArgs.step_name = <<"UI Design", "and", "Research & Data Collection">>
    /\ promptArgs.additional_context = Context("second draft")
    /\ Embeds(prompts[2], ResearchRubric)
    /\ ~Embeds(prompts[2], DesignRubric)

\* evaluate() was entered and the local file was not there
StartedWithoutFile ==
    /\ evalCalls = 1
    /\ pc \in {"upload", "poll", "get", "last_delete", "generate", "finally",
                "respond", "cleanup"}
    /\ ~tmpExists

\* no call to the provider has been made
NoRemoteCall ==
    /\ uploadCalls = 0 /\ getCalls = 0 /\ genCalls = 0
    /\ \A h \in HandleIds : deleteCalls[h] = 0
    /\ created = {}

\* C22: when the local file does not exist as evaluate() starts, evaluate()
\* raises the evaluation-failed error for the missing file and no
\* files.upload, files.get, generate_content or files.delete call is made.
MissingFileNoRemoteCall ==
    /\ StartedWithoutFile =>
           /\ NoRemoteCall
           /\ myfile = NoFile
           /\ pc \in {"finally", "respond", "cleanup"}
           /\ pc # "finally" =>
                  evalResult = Raised(<<"Evaluation failed:", "File not found:", "tmp">>)
    /\ EvaluateLeft /\ evalResult = Raised(<<"Evaluation failed:", "File not found:", "tmp">>)
           => NoRemoteCall

\* a request whose temp file was gone when evaluate() started, answered 500
MissingFileWitness ==
    /\ RequestDone
    /\ evalCalls = 1
    /\ tmpCreated = 1
    /\ evalResult = Raised(<<"Evaluation failed:", "File not found:", "tmp">>)
    /\ response.status = HTTP_500_INTERNAL_SERVER_ERROR
    /\ NoRemoteCall

\* C23: whatever evaluate() raises is answered as an HTTP error with the
\* code "evaluation_failed" and status 400 or 500, its message headed
\* "Evaluation failed:"; a request that called evaluate() is answered 200
\* only when text was returned; and every answered request has status 200,
\* 400 or 500.
EvaluatorFailureMapped ==
    RequestDone =>
        /\ response.status \in {HTTP_200_OK, HTTP_400_BAD_REQUEST,
                                HTTP_500_INTERNAL_SERVER_ERROR}
        /\ evalCalls = 1 /\ evalResult.kind # "ok" =>
               /\ response.error = "evaluation_failed"
               /\ response.status \in {HTTP_400_BAD_REQUEST,
                                       HTTP_500_INTERNAL_SERVER_ERROR}
               /\ Len(response.message) > 1
               /\ response.message[1] = "Evaluation failed:"
               /\ response.step_name = step_name
               /\ response.deliverable_name = deliverable_name
        /\ evalCalls = 1 /\ evalResult.kind = "err"
                         /\ response.status = HTTP_500_INTERNAL_SERVER_ERROR =>
               response.message = <<"Evaluation failed:">> \o evalResult.msg
        /\ response.error = "evaluation_failed" => evalCalls = 1

\* generate_content raised 503 UNAVAILABLE on a ready handle: answered 500
\* evaluation_failed with the wrapped message
EvaluatorFailureWitness ==
    /\ RequestDone
    /\ genOutcome.kind = "throw"
    /\ genOutcome.msg = <<"503", "UNAVAILABLE">>
    /\ Len(attemptErrs) = 0
    /\ response.status = HTTP_500_INTERNAL_SERVER_ERROR
    /\ response.error = "evaluation_failed"

====
